---- MODULE Spec2Model ----
(***************************************************************************)
(* scripts/pin_github_actions.py: resolve the refs of GitHub Action        *)
(* references in workflow manifests to commit SHAs and pin them.           *)
(*                                                                         *)
(* Text is modelled as sequences of one-character strings, a manifest on   *)
(* disk as one flat character sequence.  The GitHub API is the environment:*)
(* every request is answered by any element of Responses.                  *)
(***************************************************************************)
EXTENDS Integers, Sequences, FiniteSets, TLC

(***************************************************************************)
(* Bounds of the model.                                                    *)
(***************************************************************************)
\* longest manifest, in lines, the runs start from
MaxLines == 2
\* number of times the script is run over the same workflow directory
MaxRuns == 2

(***************************************************************************)
(* Characters and the two regular expressions of process_file.             *)
(***************************************************************************)
\* length of a full commit SHA, the {40} of the pinned-ref regex
ShaLen == 40

UpperCase == <<"A", "B", "C", "D", "E", "F", "G", "H", "I", "J", "K", "L", "M",
               "N", "O", "P", "Q", "R", "S", "T", "U", "V", "W", "X", "Y", "Z">>
LowerCase == <<"a", "b", "c", "d", "e", "f", "g", "h", "i", "j", "k", "l", "m",
               "n", "o", "p", "q", "r", "s", "t", "u", "v", "w", "x", "y", "z">>

\* re.IGNORECASE: letters are compared after case folding
Lower(c) ==
    IF \E k \in 1..Len(UpperCase) : UpperCase[k] = c
    THEN LowerCase[CHOOSE k \in 1..Len(UpperCase) : UpperCase[k] = c]
    ELSE c

\* \s of the re module (ASCII part)
IsSpace(c) == c \in {" ", "\t", "\n", "\r", "\f"}

\* [0-9a-f] under re.IGNORECASE
IsHex(c) ==
    Lower(c) \in {"0", "1", "2", "3", "4", "5", "6", "7", "8", "9",
                  "a", "b", "c", "d", "e", "f"}

IsDigit(c) == c \in {"0", "1", "2", "3", "4", "5", "6", "7", "8", "9"}

\* str.startswith
StartsWith(s, p) == Len(p) <= Len(s) /\ SubSeq(s, 1, Len(p)) = p

\* end (exclusive) of the greedy \s* that starts at position i
SkipSpace(s, i) ==
    CHOOSE j \in i..(Len(s) + 1) :
        /\ \A k \in i..(j - 1) : IsSpace(s[k])
        /\ (j = Len(s) + 1 \/ ~IsSpace(s[j]))

\* end (exclusive) of the greedy \S* that starts at position i
SkipNonSpace(s, i) ==
    CHOOSE j \in i..(Len(s) + 1) :
        /\ \A k \in i..(j - 1) : ~IsSpace(s[k])
        /\ (j = Len(s) + 1 \/ IsSpace(s[j]))

\* end (exclusive) of the greedy [^@\s]* that starts at position i
SkipAction(s, i) ==
    CHOOSE j \in i..(Len(s) + 1) :
        /\ \A k \in i..(j - 1) : ~IsSpace(s[k]) /\ s[k] # "@"
        /\ (j = Len(s) + 1 \/ IsSpace(s[j]) \/ s[j] = "@")

\* the literal uses: of the reference pattern
UsesKw == <<"u", "s", "e", "s", ":">>

\* a case-insensitive literal at position i
LiteralAt(s, i, lit) ==
    /\ i + Len(lit) - 1 <= Len(s)
    /\ \A k \in 1..Len(lit) : Lower(s[i + k - 1]) = lit[k]

\* pattern.match(ln) for
\*   ^(?P<indent>\s*)(?P<prefix>-?\s*uses:\s*)(?P<action>[^@\s]+)@(?P<ref>\S+)
\* Every quantifier is greedy and none of them can give a character back to
\* its successor, so the groups are the maximal runs.
PatternMatch(ln) ==
    LET p1 == SkipSpace(ln, 1)
        p2 == IF p1 <= Len(ln) /\ ln[p1] = "-" THEN p1 + 1 ELSE p1
        p3 == SkipSpace(ln, p2)
        p4 == p3 + Len(UsesKw)
        p5 == SkipSpace(ln, p4)
        p6 == SkipAction(ln, p5)
        p7 == SkipNonSpace(ln, p6 + 1)
        ok == /\ LiteralAt(ln, p3, UsesKw)
              /\ p6 > p5
              /\ p6 <= Len(ln)
              /\ ln[p6] = "@"
              /\ p7 > p6 + 1
    IN  IF ok
        THEN [ok |-> TRUE,
              indent |-> SubSeq(ln, 1, p1 - 1),
              action |-> SubSeq(ln, p5, p6 - 1),
              ref |-> SubSeq(ln, p6 + 1, p7 - 1)]
        ELSE [ok |-> FALSE, indent |-> <<>>, action |-> <<>>, ref |-> <<>>]

\* a variant of IsLocal that knows './' alone
IsLocalDotSlash(action) == StartsWith(action, <<".", "/">>)

\* action.startswith('.') or action.startswith('./')
IsLocal(action) == StartsWith(action, <<".">>) \/ StartsWith(action, <<".", "/">>)

\* a variant of IsPinned without re.IGNORECASE
IsPinnedCaseSensitive(ref) ==
    /\ Len(ref) = ShaLen
    /\ \A k \in 1..Len(ref) :
          ref[k] \in {"0", "1", "2", "3", "4", "5", "6", "7", "8", "9",
                      "a", "b", "c", "d", "e", "f"}

\* re.fullmatch(r'[0-9a-f]{40}', ref, re.IGNORECASE)
IsPinned(ref) == Len(ref) = ShaLen /\ \A k \in 1..Len(ref) : IsHex(ref[k])

\* '/' in action
HasSlash(action) == \E k \in 1..Len(action) : action[k] = "/"

\* owner, repo = action.split('/', 1)
SplitAction(action) ==
    LET k == CHOOSE j \in 1..Len(action) :
                 action[j] = "/" /\ \A h \in 1..(j - 1) : action[h] # "/"
    IN  [owner |-> SubSeq(action, 1, k - 1),
         repo |-> SubSeq(action, k + 1, Len(action))]

\* f"{indent}# original uses: {action}@{ref}\n"
AuditLine(indent, action, ref) ==
    indent \o <<"#", " ", "o", "r", "i", "g", "i", "n", "a", "l", " ",
                "u", "s", "e", "s", ":", " ">> \o action \o <<"@">> \o ref \o <<"\n">>

\* The replacement string of re.sub is a template: a backslash starts an
\* escape.  \1 (not followed by a digit) is group 1, \\ is a backslash; a
\* backslash that ends the template, or any other escape built from the
\* characters of this model, raises re.error.
RECURSIVE ExpandTemplate(_, _, _)
ExpandTemplate(t, i, g) ==
    IF i > Len(t) THEN [err |-> FALSE, s |-> <<>>]
    ELSE IF t[i] # "\\"
    THEN LET r == ExpandTemplate(t, i + 1, g)
         IN  [err |-> r.err, s |-> <<t[i]>> \o r.s]
    ELSE IF i = Len(t) THEN [err |-> TRUE, s |-> <<>>]
    ELSE IF t[i + 1] = "1" /\ (i + 2 > Len(t) \/ ~IsDigit(t[i + 2]))
    THEN LET r == ExpandTemplate(t, i + 2, g)
         IN  [err |-> r.err, s |-> g \o r.s]
    ELSE IF t[i + 1] = "\\"
    THEN LET r == ExpandTemplate(t, i + 2, g)
         IN  [err |-> r.err, s |-> <<"\\">> \o r.s]
    ELSE [err |-> TRUE, s |-> <<>>]

\* re.sub(r'@(\S+)', f'@{sha}', ln, count=1): the leftmost '@' followed by a
\* non-space character, with the maximal run of non-space after it, is
\* replaced by the expansion of the template.  The template is parsed even
\* when nothing matches.
ReSub(sha, ln) ==
    LET hits == {a \in 1..(Len(ln) - 1) : ln[a] = "@" /\ ~IsSpace(ln[a + 1])}
    IN  IF hits = {}
        THEN [err |-> ExpandTemplate(<<"@">> \o sha, 1, <<>>).err, s |-> ln]
        ELSE LET a == CHOOSE x \in hits : \A y \in hits : x <= y
                 e == SkipNonSpace(ln, a + 1)
                 x == ExpandTemplate(<<"@">> \o sha, 1, SubSeq(ln, a + 1, e - 1))
             IN  [err |-> x.err,
                  s |-> SubSeq(ln, 1, a - 1) \o x.s \o SubSeq(ln, e, Len(ln))]

(***************************************************************************)
(* Text files: open(path, 'r') reads with universal newlines, readlines    *)
(* splits after every '\n', writelines concatenates.                       *)
(***************************************************************************)
\* the elements of a set of positions, in increasing order
Sorted(S) ==
    [j \in 1..Cardinality(S) |-> CHOOSE i \in S : Cardinality({k \in S : k < i}) = j - 1]

\* text-mode decoding: "\r\n" and a lone "\r" both become "\n"
Universal(t) ==
    LET kept == Sorted({i \in 1..Len(t) : ~(t[i] = "\r" /\ i < Len(t) /\ t[i + 1] = "\n")})
    IN  [j \in 1..Len(kept) |-> IF t[kept[j]] = "\r" THEN "\n" ELSE t[kept[j]]]

\* str.splitlines(keepends=True) on "\n" alone: a line ends after each "\n",
\* and what follows the last "\n" is a line without terminator
SplitLines(u) ==
    LET nl == {i \in 1..Len(u) : u[i] = "\n"}
        ends == Sorted(nl \cup (IF Len(u) > 0 THEN {Len(u)} ELSE {}))
    IN  [j \in 1..Len(ends) |->
            SubSeq(u, IF j = 1 THEN 1 ELSE ends[j - 1] + 1, ends[j])]

\* f.readlines()
ReadLines(text) == SplitLines(Universal(text))

\* f.writelines(ls) on a POSIX system (no newline translation on output)
RECURSIVE WriteLines(_)
WriteLines(ls) == IF ls = <<>> THEN <<>> ELSE Head(ls) \o WriteLines(Tail(ls))

(***************************************************************************)
(* JSON values, as json.loads returns them, and the API's responses.       *)
(***************************************************************************)
\* a body json.loads rejects (it raises)
NotJson == [t |-> "notjson"]
\* None
JNull == [t |-> "null"]
\* a JSON array: parses, but has no .get (AttributeError)
JList == [t |-> "list"]
JStr(s) == [t |-> "str", s |-> s]
JDict(f) == [t |-> "dict", f |-> f]
\* a local variable that has not been assigned
Unset == [t |-> "unset"]

IsDict(j) == j.t = "dict"

\* dict.get(k, d)
Get(j, k, d) == IF k \in DOMAIN j.f THEN j.f[k] ELSE d

\* truth value of a JSON value: None and '' are false
Truthy(v) == v.t = "str" /\ v.s # <<>>

\* status codes: 200 is the only one the resolver accepts
HTTP_OK == 200
\* e.code of an HTTPError
NotFound == 404
\* the None gh_api_get returns as code after a transport error
NoCode == 0

\* what os.environ.get('GITHUB_TOKEN') can return: None when the variable is
\* absent, its value otherwise
Tokens == {JNull, JStr(<<>>), JStr(<<"t">>)}

\* identifiers the API may answer with
ShaC == [i \in 1..ShaLen |-> IF i % 2 = 1 THEN "c" ELSE "0"]
ShaT == [i \in 1..ShaLen |-> IF i % 2 = 1 THEN "7" ELSE "a"]
ShortId == <<"a", "b", "c">>
BadEsc == <<"\\">>
\* the tag name a release declares
TagName == <<"v", "4", ".", "1">>

TypeCommit == JStr(<<"c", "o", "m", "m", "i", "t">>)
TypeTag == JStr(<<"t", "a", "g">>)

Bodies ==
    {NotJson, JList, JDict(<<>>)}
    \cup {JDict([sha |-> JStr(s)]) : s \in {ShaC, ShortId, BadEsc, <<>>}}
    \cup {JDict([object |-> JNull]),
          JDict([object |-> JDict([type |-> TypeCommit])]),
          JDict([object |-> JDict([sha |-> JStr(ShaC), type |-> TypeCommit])]),
          JDict([object |-> JDict([sha |-> JStr(ShaT), type |-> TypeTag])])}
    \cup {JDict([tag_name |-> JStr(TagName)]), JDict([tag_name |-> JStr(<<>>)])}

\* what gh_api_get can return as (body, code): an HTTP error with GitHub's
\* error document, a transport error with the exception's text, or a 200
Responses ==
    {[code |-> NotFound, body |-> JDict(<<>>)], [code |-> NoCode, body |-> NotJson]}
    \cup {[code |-> HTTP_OK, body |-> b] : b \in Bodies}

(***************************************************************************)
(* resolve_sha, step by step: what each step does with a response.         *)
(***************************************************************************)
\* a variant of CommitReturns in which the commit lookup never ends the search
CommitNeverReturns(r) == FALSE

\* lines 46-50: the commit lookup returns from resolve_sha when the status is
\* 200 and json.loads(body).get raises nothing
CommitReturns(r) == r.code = HTTP_OK /\ IsDict(r.body)

\* line 48: json.loads(body).get('sha')
CommitValue(r) == Get(r.body, "sha", JNull)

\* lines 53-57, 67-68: obj_sha of the tag-ref lookup, None when the status is
\* not 200 or an exception was caught
TagRefSha(r) ==
    IF r.code = HTTP_OK /\ IsDict(r.body)
    THEN LET obj == Get(r.body, "object", JDict(<<>>))
         IN  IF IsDict(obj) THEN Get(obj, "sha", JNull) ELSE JNull
    ELSE JNull

\* lines 57-58: the tag object is fetched whenever obj_sha is true
NeedsTagObject(r) == Truthy(TagRefSha(r))

\* a variant of TagObjResult that never looks into the tag object
TagObjResultNoDeref(r, t) == t

\* a variant of TagObjResult that gives up when the tag object is not to be had
TagObjResultNoFallback(r, t) ==
    IF r.code = HTTP_OK /\ IsDict(r.body) /\ IsDict(Get(r.body, "object", JDict(<<>>)))
    THEN Get(Get(r.body, "object", JDict(<<>>)), "sha", JNull)
    ELSE JNull

\* lines 60-66: the value returned after the tag-object lookup
TagObjResult(r, obj_sha) ==
    IF r.code = HTTP_OK
    THEN IF IsDict(r.body) /\ IsDict(Get(r.body, "object", JDict(<<>>)))
         THEN LET v == Get(Get(r.body, "object", JDict(<<>>)), "sha", JNull)
              IN  IF Truthy(v) THEN v ELSE obj_sha
         ELSE obj_sha
    ELSE obj_sha

\* lines 71-74, 82-83: tag of the release lookup, None when there is none
ReleaseTag(r) ==
    IF r.code = HTTP_OK /\ IsDict(r.body) THEN Get(r.body, "tag_name", JNull) ELSE JNull

\* lines 76-81, 84: the value returned after the release's tag-ref lookup
ReleaseTagResult(r) ==
    IF r.code = HTTP_OK /\ IsDict(r.body)
    THEN LET obj == Get(r.body, "object", JDict(<<>>))
         IN  IF IsDict(obj) THEN Get(obj, "sha", JNull) ELSE JNull
    ELSE JNull

(***************************************************************************)
(* The workflow directory the runs start from.                             *)
(***************************************************************************)
PlainLine == <<"j", "o", "b", "s", ":", "\r", "\n">>
LocalLine == <<"-", " ", "u", "s", "e", "s", ":", " ", ".", "a", "/", "b", "@", "v", "1", "\n">>
BranchLine ==
    <<" ", " ", "-", " ", "u", "s", "e", "s", ":", " ", "o", "/", "r", "@", "v", "4",
      " ", "#", " ", "@", "v", "4", "\n">>
TagLine == <<"\t", "U", "s", "e", "s", ":", "o", "/", "r", "@", "x", "@", "y", "\n">>
PinnedLine ==
    <<"u", "s", "e", "s", ":", " ", "o", "/", "r", "@">>
    \o [i \in 1..ShaLen |-> IF i % 2 = 1 THEN "A" ELSE "f"] \o <<"\n">>
LocalPinnedLine ==
    <<"u", "s", "e", "s", ":", " ", ".", "/", "a", "@">> \o ShaC \o <<"\n">>
NoSlashLine == <<"u", "s", "e", "s", ":", " ", "d", "o", "c", "k", "e", "r", "@", "v", "1">>

\* a workflow with one line of every kind; its last line has no terminator
Corpus ==
    <<LocalLine, PlainLine, BranchLine, TagLine, PinnedLine, LocalPinnedLine, NoSlashLine>>

\* the manifests: every run of at most MaxLines consecutive lines of Corpus
Manifests ==
    {WriteLines(SubSeq(Corpus, w[1], w[2])) :
        w \in {v \in (1..Len(Corpus)) \X (0..Len(Corpus)) :
                  v[2] >= v[1] - 1 /\ v[2] - v[1] + 1 <= MaxLines}}

\* WORKFLOW_GLOB/*.yml
Paths == {"ci.yml"}

(***************************************************************************)
(* State.                                                                  *)
(***************************************************************************)
VARIABLES
    token,        \* TOKEN: what os.environ.get('GITHUB_TOKEN') returned
    yml,          \* the *.yml files of the workflow directory: path -> content
    bak,          \* their '.bak' siblings: path -> [exists, data]
    run,          \* number of the current run of the script
    pc,           \* where the run stands
    files,        \* main: the list glob returned
    fi,           \* main: position of the for loop in files
    any_changed,  \* main
    raised,       \* the exception that ended the run, "none" if there is none
    lines,        \* process_file: f.readlines()
    out,          \* process_file
    changed,      \* process_file
    pos,          \* process_file: position of the for loop in lines
    indent,       \* process_file: m.group('indent')
    action,       \* process_file: m.group('action')
    ref,          \* process_file: m.group('ref')
    sha,          \* process_file: what resolve_sha returned
    owner,        \* resolve_sha
    repo,         \* resolve_sha
    body,         \* resolve_sha
    code,         \* resolve_sha
    body2,        \* resolve_sha
    code2,        \* resolve_sha
    obj_sha,      \* resolve_sha
    tag,          \* resolve_sha
    calls,        \* history: the requests of the current resolve_sha call
    invoked,      \* history: positions of the lines resolve_sha was called for
    failed,       \* history: position of each line FAILED was printed for -> the
                  \*          endpoints resolve_sha had requested for it
    outMarks,     \* history: how each line of out came about
    marks,        \* history: outMarks of the pass that last wrote each file
    orig          \* history: content of each file when it was last opened for reading

fsVars == <<yml, bak, marks, orig>>
mainVars == <<files, fi, any_changed, raised>>
passVars == <<lines, out, changed, pos, invoked, failed, outMarks>>
lineVars == <<indent, action, ref, owner, repo>>
callVars == <<body, code, body2, code2, obj_sha, tag, calls>>
vars == <<token, run, pc, fsVars, mainVars, passVars, lineVars, sha, callVars>>

\* the file process_file is working on
path == files[fi]
\* the line the for loop of process_file is at
ln == lines[pos]

\* the for loop of process_file has run over every line
PassComplete == pc = "line" /\ pos > Len(lines)

\* a request of gh_api_get, by endpoint and last path segment
Call(ep, arg) == [ep |-> ep, owner |-> owner, repo |-> repo, arg |-> arg]

\* lines 99-118: what process_file decides about a line
Classify(l) ==
    LET m == PatternMatch(l)
    IN  IF ~m.ok THEN "nomatch"
        ELSE IF IsLocal(m.action) THEN "local"
        ELSE IF IsPinned(m.ref) THEN "pinned"
        ELSE IF ~HasSlash(m.action) THEN "noslash"
        ELSE "eligible"

TypeOK ==
    /\ token \in Tokens
    /\ run \in 1..MaxRuns
    /\ pc \in {"import", "exit1", "main", "loop", "line", "commit", "tagref", "tagobj",
               "release", "reltag", "ret", "bak_open", "bak_write", "yml_open",
               "yml_write", "done", "crashed"}
    /\ DOMAIN yml \subseteq Paths \cup {"cd.yml"}
    /\ DOMAIN bak = DOMAIN yml
    /\ DOMAIN orig = DOMAIN yml
    /\ raised \in {"none", "re.error", "OSError"}
    /\ changed \in BOOLEAN
    /\ any_changed \in BOOLEAN
    /\ Len(outMarks) = Len(out)

(***************************************************************************)
(* Init: a workflow directory and an environment, before the first run.    *)
(***************************************************************************)
NoFrame ==
    /\ lines = <<>> /\ out = <<>> /\ changed = FALSE /\ pos = 1
    /\ invoked = {} /\ failed = <<>> /\ outMarks = <<>>
    /\ indent = <<>> /\ action = <<>> /\ ref = <<>> /\ owner = <<>> /\ repo = <<>>
    /\ sha = Unset
    /\ body = Unset /\ code = NoCode /\ body2 = Unset /\ code2 = NoCode
    /\ obj_sha = Unset /\ tag = Unset /\ calls = <<>>

Init ==
    /\ token \in Tokens
    /\ \E F \in SUBSET Paths : yml \in [F -> Manifests]
    /\ bak = [p \in DOMAIN yml |-> [exists |-> FALSE, data |-> <<>>]]
    /\ marks = [p \in DOMAIN yml |-> <<>>]
    /\ orig = yml
    /\ run = 1
    /\ pc = "import"
    /\ files = <<>> /\ fi = 1 /\ any_changed = FALSE /\ raised = "none"
    /\ NoFrame

(***************************************************************************)
(* Module level and main.                                                  *)
(***************************************************************************)
\* a variant of TokenMissing that prints the message and goes on
TokenMissingGoesOn ==
    /\ pc = "import"
    /\ ~Truthy(token)
    /\ pc' = "main"
    /\ UNCHANGED <<token, run, fsVars, mainVars, passVars, lineVars, sha, callVars>>

\* lines 13-16, token missing: message on stderr, sys.exit(1)
TokenMissing ==
    /\ pc = "import"
    /\ ~Truthy(token)
    /\ pc' = "exit1"
    /\ UNCHANGED <<token, run, fsVars, mainVars, passVars, lineVars, sha, callVars>>

\* lines 13-14, 160-161: the token is there, main is called
TokenPresent ==
    /\ pc = "import"
    /\ Truthy(token)
    /\ pc' = "main"
    /\ UNCHANGED <<token, run, fsVars, mainVars, passVars, lineVars, sha, callVars>>

\* lines 145-148: no workflow file
NoWorkflowFiles ==
    /\ pc = "main"
    /\ DOMAIN yml = {}
    /\ files' = <<>>
    /\ pc' = "done"
    /\ UNCHANGED <<token, run, fsVars, fi, any_changed, raised, passVars, lineVars, sha,
                   callVars>>

\* lines 145-149: glob lists the files in an order of its own
Glob ==
    /\ pc = "main"
    /\ DOMAIN yml # {}
    /\ \E order \in [1..Cardinality(DOMAIN yml) -> DOMAIN yml] :
          /\ \A a, b \in DOMAIN order : a # b => order[a] # order[b]
          /\ files' = order
    /\ fi' = 1
    /\ any_changed' = FALSE
    /\ pc' = "loop"
    /\ UNCHANGED <<token, run, fsVars, raised, passVars, lineVars, sha, callVars>>

\* lines 150-152, 88-90, 97: the next file is read
ProcessFile ==
    /\ pc = "loop"
    /\ fi <= Len(files)
    /\ lines' = ReadLines(yml[path])
    /\ orig' = [orig EXCEPT ![path] = yml[path]]
    /\ out' = <<>>
    /\ changed' = FALSE
    /\ pos' = 1
    /\ invoked' = {} /\ failed' = <<>> /\ outMarks' = <<>>
    /\ pc' = "line"
    /\ UNCHANGED <<token, run, yml, bak, marks, mainVars, lineVars, sha, callVars>>

\* lines 156-157: every file is done
MainReturns ==
    /\ pc = "loop"
    /\ fi > Len(files)
    /\ pc' = "done"
    /\ UNCHANGED <<token, run, fsVars, mainVars, passVars, lineVars, sha, callVars>>

\* the frame of resolve_sha is gone once it has returned, and what
\* process_file keeps of the line is overwritten before it is read again
FrameDropped ==
    /\ indent' = <<>> /\ action' = <<>> /\ ref' = <<>> /\ owner' = <<>> /\ repo' = <<>>
    /\ sha' = Unset
    /\ body' = Unset /\ code' = NoCode /\ body2' = Unset /\ code2' = NoCode
    /\ obj_sha' = Unset /\ tag' = Unset /\ calls' = <<>>

\* the script is started again on the directory the last run left
Rerun ==
    /\ pc \in {"done", "crashed", "exit1"}
    /\ run < MaxRuns
    /\ run' = run + 1
    /\ pc' = "import"
    /\ files' = <<>> /\ fi' = 1 /\ any_changed' = FALSE /\ raised' = "none"
    /\ lines' = <<>> /\ out' = <<>> /\ changed' = FALSE /\ pos' = 1
    /\ invoked' = {} /\ failed' = <<>> /\ outMarks' = <<>>
    /\ FrameDropped
    /\ UNCHANGED <<token, fsVars>>

(***************************************************************************)
(* process_file: the pass over the lines.                                  *)
(***************************************************************************)
\* lines 99-118: a line that is not a reference, or a local, pinned or
\* slash-less one, is appended as it is
KeepLine ==
    /\ pc = "line"
    /\ pos <= Len(lines)
    /\ Classify(ln) # "eligible"
    /\ out' = Append(out, ln)
    /\ outMarks' = Append(outMarks, "kept")
    /\ pos' = pos + 1
    /\ UNCHANGED <<token, run, pc, fsVars, mainVars, lines, changed, invoked, failed,
                   lineVars, sha, callVars>>

\* lines 99-121: an eligible reference, resolve_sha is called
CallResolve ==
    /\ pc = "line"
    /\ pos <= Len(lines)
    /\ Classify(ln) = "eligible"
    /\ LET m == PatternMatch(ln)
       IN  /\ indent' = m.indent
           /\ action' = m.action
           /\ ref' = m.ref
           /\ owner' = SplitAction(m.action).owner
           /\ repo' = SplitAction(m.action).repo
    /\ invoked' = invoked \cup {pos}
    /\ calls' = <<>>
    /\ pc' = "commit"
    /\ UNCHANGED <<token, run, fsVars, mainVars, lines, out, changed, pos, failed,
                   outMarks, sha, body, code, body2, code2, obj_sha, tag>>

\* a variant of Unresolved that marks the file changed
UnresolvedMarksChanged ==
    /\ pc = "ret"
    /\ ~Truthy(sha)
    /\ failed' = (pos :> [k \in 1..Len(calls) |-> calls[k].ep]) @@ failed
    /\ out' = Append(out, ln)
    /\ outMarks' = Append(outMarks, "kept")
    /\ changed' = TRUE
    /\ pos' = pos + 1
    /\ pc' = "line"
    /\ FrameDropped
    /\ UNCHANGED <<token, run, fsVars, mainVars, lines, invoked>>

\* lines 122-125: nothing came back
Unresolved ==
    /\ pc = "ret"
    /\ ~Truthy(sha)
    /\ failed' = (pos :> [k \in 1..Len(calls) |-> calls[k].ep]) @@ failed
    /\ out' = Append(out, ln)
    /\ outMarks' = Append(outMarks, "kept")
    /\ pos' = pos + 1
    /\ pc' = "line"
    /\ FrameDropped
    /\ UNCHANGED <<token, run, fsVars, mainVars, lines, changed, invoked>>

\* lines 126-132: the audit comment and the pinned line
Rewrite ==
    /\ pc = "ret"
    /\ Truthy(sha)
    /\ ~ReSub(sha.s, ln).err
    /\ out' = out \o <<AuditLine(indent, action, ref), ReSub(sha.s, ln).s>>
    /\ outMarks' = outMarks \o <<"audit", "pinned">>
    /\ changed' = TRUE
    /\ pos' = pos + 1
    /\ pc' = "line"
    /\ FrameDropped
    /\ UNCHANGED <<token, run, fsVars, mainVars, lines, invoked, failed>>

\* lines 126-130: re.sub raises re.error on the template, nothing catches it
RewriteRaises ==
    /\ pc = "ret"
    /\ Truthy(sha)
    /\ ReSub(sha.s, ln).err
    /\ out' = Append(out, AuditLine(indent, action, ref))
    /\ outMarks' = Append(outMarks, "audit")
    /\ raised' = "re.error"
    /\ pc' = "crashed"
    /\ UNCHANGED <<token, run, fsVars, files, fi, any_changed, lines, changed, pos,
                   invoked, failed, lineVars, sha, callVars>>

\* lines 134, 140, 152-153: nothing changed, process_file returns False
ReturnUnchanged ==
    /\ PassComplete
    /\ ~changed
    /\ fi' = fi + 1
    /\ pc' = "loop"
    /\ UNCHANGED <<token, run, fsVars, files, any_changed, raised, passVars, lineVars,
                   sha, callVars>>

\* a variant of BackupOpen that does not look at changed
BackupOpenAlways ==
    /\ PassComplete
    /\ bak' = [bak EXCEPT ![path] = [exists |-> TRUE, data |-> <<>>]]
    /\ pc' = "bak_write"
    /\ UNCHANGED <<token, run, yml, marks, orig, mainVars, passVars, lineVars, sha,
                   callVars>>

\* lines 134-136: the backup is opened for writing
BackupOpen ==
    /\ PassComplete
    /\ changed
    /\ bak' = [bak EXCEPT ![path] = [exists |-> TRUE, data |-> <<>>]]
    /\ pc' = "bak_write"
    /\ UNCHANGED <<token, run, yml, marks, orig, mainVars, passVars, lineVars, sha,
                   callVars>>

\* line 137 and the end of the with block
BackupWrite ==
    /\ pc = "bak_write"
    /\ bak' = [bak EXCEPT ![path] = [exists |-> TRUE, data |-> WriteLines(lines)]]
    /\ pc' = "yml_open"
    /\ UNCHANGED <<token, run, yml, marks, orig, mainVars, passVars, lineVars, sha,
                   callVars>>

\* line 138: the manifest is opened for writing, which truncates it
ManifestOpen ==
    /\ pc = "yml_open"
    /\ yml' = [yml EXCEPT ![path] = <<>>]
    /\ pc' = "yml_write"
    /\ UNCHANGED <<token, run, bak, marks, orig, mainVars, passVars, lineVars, sha,
                   callVars>>

\* lines 139-140, 152-155: out is written, process_file returns True
ManifestWrite ==
    /\ pc = "yml_write"
    /\ yml' = [yml EXCEPT ![path] = WriteLines(out)]
    /\ marks' = [marks EXCEPT ![path] = outMarks]
    /\ any_changed' = TRUE
    /\ fi' = fi + 1
    /\ pc' = "loop"
    /\ UNCHANGED <<token, run, bak, orig, files, raised, passVars, lineVars, sha,
                   callVars>>

(***************************************************************************)
(* File errors.  Neither process_file nor main has a try statement: an     *)
(* OSError of open, readlines or writelines ends the run with a traceback. *)
(***************************************************************************)
\* lines 89-90: the manifest cannot be opened or read
ReadFails ==
    /\ pc = "loop"
    /\ fi <= Len(files)
    /\ raised' = "OSError"
    /\ pc' = "crashed"
    /\ UNCHANGED <<token, run, fsVars, files, fi, any_changed, passVars, lineVars, sha,
                   callVars>>

\* line 136: the backup cannot be opened for writing
BackupOpenFails ==
    /\ PassComplete
    /\ changed
    /\ raised' = "OSError"
    /\ pc' = "crashed"
    /\ UNCHANGED <<token, run, fsVars, files, fi, any_changed, passVars, lineVars, sha,
                   callVars>>

\* line 137: writing the backup fails after open has truncated it
BackupWriteFails ==
    /\ pc = "bak_write"
    /\ raised' = "OSError"
    /\ pc' = "crashed"
    /\ UNCHANGED <<token, run, fsVars, files, fi, any_changed, passVars, lineVars, sha,
                   callVars>>

\* line 138: the manifest cannot be opened for writing
ManifestOpenFails ==
    /\ pc = "yml_open"
    /\ raised' = "OSError"
    /\ pc' = "crashed"
    /\ UNCHANGED <<token, run, fsVars, files, fi, any_changed, passVars, lineVars, sha,
                   callVars>>

\* line 139: writing the manifest fails after open has truncated it
ManifestWriteFails ==
    /\ pc = "yml_write"
    /\ raised' = "OSError"
    /\ pc' = "crashed"
    /\ UNCHANGED <<token, run, fsVars, files, fi, any_changed, passVars, lineVars, sha,
                   callVars>>

(***************************************************************************)
(* resolve_sha: one action per request.                                    *)
(***************************************************************************)
\* lines 45-50: commits/{ref}
CommitLookup ==
    /\ pc = "commit"
    /\ \E r \in Responses :
          /\ body' = r.body
          /\ code' = r.code
          /\ sha' = IF CommitReturns(r) THEN CommitValue(r) ELSE sha
          /\ pc' = IF CommitReturns(r) THEN "ret" ELSE "tagref"
    /\ calls' = Append(calls, Call("commits", ref))
    /\ UNCHANGED <<token, run, fsVars, mainVars, passVars, lineVars, body2, code2,
                   obj_sha, tag>>

\* lines 52-57, 67-68: git/ref/tags/{ref}
TagRefLookup ==
    /\ pc = "tagref"
    /\ \E r \in Responses :
          /\ body' = r.body
          /\ code' = r.code
          /\ obj_sha' = IF NeedsTagObject(r) THEN TagRefSha(r) ELSE obj_sha
          /\ pc' = IF NeedsTagObject(r) THEN "tagobj" ELSE "release"
    /\ calls' = Append(calls, Call("git/ref/tags", ref))
    /\ UNCHANGED <<token, run, fsVars, mainVars, passVars, lineVars, sha, body2, code2,
                   tag>>

\* lines 59-66: git/tags/{obj_sha}
TagObjLookup ==
    /\ pc = "tagobj"
    /\ \E r \in Responses :
          /\ body2' = r.body
          /\ code2' = r.code
          /\ sha' = TagObjResult(r, obj_sha)
    /\ calls' = Append(calls, Call("git/tags", obj_sha.s))
    /\ pc' = "ret"
    /\ UNCHANGED <<token, run, fsVars, mainVars, passVars, lineVars, body, code,
                   obj_sha, tag>>

\* lines 70-74, 82-84: releases/tags/{ref}
ReleaseLookup ==
    /\ pc = "release"
    /\ \E r \in Responses :
          /\ body' = r.body
          /\ code' = r.code
          /\ tag' = IF Truthy(ReleaseTag(r)) THEN ReleaseTag(r) ELSE tag
          /\ sha' = IF Truthy(ReleaseTag(r)) THEN sha ELSE JNull
          /\ pc' = IF Truthy(ReleaseTag(r)) THEN "reltag" ELSE "ret"
    /\ calls' = Append(calls, Call("releases/tags", ref))
    /\ UNCHANGED <<token, run, fsVars, mainVars, passVars, lineVars, body2, code2,
                   obj_sha>>

\* lines 75-81, 84: git/ref/tags/{tag}
ReleaseTagLookup ==
    /\ pc = "reltag"
    /\ \E r \in Responses :
          /\ body2' = r.body
          /\ code2' = r.code
          /\ sha' = ReleaseTagResult(r)
    /\ calls' = Append(calls, Call("git/ref/tags", tag.s))
    /\ pc' = "ret"
    /\ UNCHANGED <<token, run, fsVars, mainVars, passVars, lineVars, body, code,
                   obj_sha, tag>>

(***************************************************************************)
(* The specification.                                                      *)
(***************************************************************************)
Next ==
    \/ TokenMissing
    \/ TokenPresent
    \/ NoWorkflowFiles
    \/ Glob
    \/ ProcessFile
    \/ MainReturns
    \/ Rerun
    \/ KeepLine
    \/ CallResolve
    \/ CommitLookup
    \/ TagRefLookup
    \/ TagObjLookup
    \/ ReleaseLookup
    \/ ReleaseTagLookup
    \/ Unresolved
    \/ Rewrite
    \/ RewriteRaises
    \/ ReturnUnchanged
    \/ BackupOpen
    \/ BackupWrite
    \/ ManifestOpen
    \/ ManifestWrite

Spec == Init /\ [][Next]_vars

(***************************************************************************)
(* The same program on a directory of up to two workflows, with a file     *)
(* system whose operations may fail.                                       *)
(***************************************************************************)
\* WORKFLOW_GLOB/*.yml of a directory with two workflows
TwoPaths == {"ci.yml", "cd.yml"}

\* what the two workflows may hold
ShortManifests == {WriteLines(<<PlainLine>>), WriteLines(<<BranchLine>>)}

InitIO ==
    /\ token \in Tokens
    /\ \E F \in SUBSET TwoPaths : yml \in [F -> ShortManifests]
    /\ bak = [p \in DOMAIN yml |-> [exists |-> FALSE, data |-> <<>>]]
    /\ marks = [p \in DOMAIN yml |-> <<>>]
    /\ orig = yml
    /\ run = 1
    /\ pc = "import"
    /\ files = <<>> /\ fi = 1 /\ any_changed = FALSE /\ raised = "none"
    /\ NoFrame

NextIO ==
    \/ Next
    \/ ReadFails
    \/ BackupOpenFails
    \/ BackupWriteFails
    \/ ManifestOpenFails
    \/ ManifestWriteFails

SpecIO == InitIO /\ [][NextIO]_vars

(***************************************************************************)
(* Properties.                                                             *)
(***************************************************************************)
\* the endpoints the current resolve_sha call has requested, in order
Eps == [k \in 1..Len(calls) |-> calls[k].ep]

\* resolve_sha has returned nothing usable: None or ''
NoResult == pc = "ret" /\ ~(sha.t = "str" /\ sha.s # <<>>)

\* resolve_sha has returned an identifier
SomeResult == pc = "ret" /\ sha.t = "str" /\ sha.s # <<>>

\* exactly 40 hexadecimal characters, either case
FortyHex(s) ==
    /\ Len(s) = ShaLen
    /\ \A k \in 1..Len(s) :
          s[k] \in {"0", "1", "2", "3", "4", "5", "6", "7", "8", "9",
                    "a", "b", "c", "d", "e", "f", "A", "B", "C", "D", "E", "F"}

\* the response document b names a target object with a non-empty identifier
HasObjectId(b) ==
    /\ b.t = "dict"
    /\ "object" \in DOMAIN b.f
    /\ b.f["object"].t = "dict"
    /\ "sha" \in DOMAIN b.f["object"].f
    /\ b.f["object"].f["sha"].t = "str"
    /\ b.f["object"].f["sha"].s # <<>>

ObjectId(b) == b.f["object"].f["sha"]

\* ... and the target is of the given type ("commit": a lightweight tag,
\* "tag": an annotated one)
HasObjectOfType(b, type) ==
    /\ HasObjectId(b)
    /\ "type" \in DOMAIN b.f["object"].f
    /\ b.f["object"].f["type"] = type

\* for the k-th line of lines, once the loop is past it: the position in out
\* of the line that stands for it (the audit comments are extra lines)
OutOf(k) == Sorted({j \in 1..Len(outMarks) : outMarks[j] # "audit"})[k]

\* line k was appended to out as it is, as one line
EmittedUnchanged(k) ==
    /\ out[OutOf(k)] = lines[k]
    /\ outMarks[OutOf(k)] = "kept"
    /\ (OutOf(k) > 1 => outMarks[OutOf(k) - 1] # "audit")

\* C1: every way a step of resolve_sha can produce no result hands over to
\* the next step, so that resolve_sha returns unresolved only after the
\* release lookup has been issued.
C1_NoResultTriesNextStep ==
    NoResult => \E k \in 1..Len(calls) : calls[k].ep = "releases/tags"

\* C2: when the commit lookup fails and the tag-ref lookup returns a
\* commit-type target with identifier C, resolve_sha returns C and issues no
\* request after the tag-ref lookup.
C2_LightweightTagNotDereferenced ==
    (/\ pc = "ret"
     /\ Len(calls) >= 2
     /\ calls[2].ep = "git/ref/tags"
     /\ \A k \in 1..Len(calls) : calls[k].ep # "releases/tags"
     /\ code = HTTP_OK
     /\ HasObjectOfType(body, TypeCommit))
    => (sha = ObjectId(body) /\ Len(calls) = 2)

\* a lookup failed: a status other than 200 (a transport error has none), or
\* a body that is no JSON object
LookupFailed(c, b) == c # HTTP_OK \/ b.t # "dict"

\* C3: when the commit lookup fails, resolve_sha goes on to the tag-ref
\* lookup; when that returns a tag-object identifier T, the tag object T is
\* looked up; and when that lookup answers 200 with target commit identifier
\* C, resolve_sha returns C, not T.
C3_AnnotatedTagDereferenced ==
    [][/\ (pc = "commit" /\ LookupFailed(code', body'))
            => (pc' = "tagref" /\ calls' = <<Call("commits", ref)>>)
       /\ (pc = "tagref" /\ code' = HTTP_OK /\ HasObjectId(body'))
            => /\ pc' = "tagobj"
               /\ obj_sha' = ObjectId(body')
               /\ calls' = Append(calls, Call("git/ref/tags", ref))
       /\ (pc = "tagobj" /\ code2' = HTTP_OK /\ HasObjectId(body2'))
            => /\ pc' = "ret"
               /\ calls' = Append(calls, Call("git/tags", obj_sha.s))
               /\ sha' = ObjectId(body2')
               /\ (ObjectId(body2') # obj_sha => sha' # obj_sha)]_vars

\* an annotated tag has been dereferenced: T came from the tag ref, C from
\* the tag object, and C was returned
C3_Witness ==
    /\ pc = "ret"
    /\ Eps = <<"commits", "git/ref/tags", "git/tags">>
    /\ code = HTTP_OK
    /\ HasObjectOfType(body, TypeTag)
    /\ ObjectId(body).s = ShaT
    /\ code2 = HTTP_OK
    /\ HasObjectId(body2)
    /\ ObjectId(body2).s = ShaC
    /\ sha.s = ShaC

\* C4: when commit and tag-ref lookup produce nothing and the release names
\* tag t, the result is what step 2 yields for t; for an annotated t that is
\* the commit inside the tag object, not the tag object's identifier.
C4_ReleaseTagDereferenced ==
    (/\ pc = "ret"
     /\ Eps = <<"commits", "git/ref/tags", "releases/tags", "git/ref/tags">>
     /\ code2 = HTTP_OK
     /\ HasObjectOfType(body2, TypeTag))
    => sha # ObjectId(body2)

\* C5: whatever the API answers, a value resolve_sha returns as resolved, and
\* so every ref process_file pins, is exactly 40 hexadecimal characters.
C5_ResolvedIsFullSha ==
    /\ SomeResult => FortyHex(sha.s)
    /\ \A j \in 1..Len(out) :
          outMarks[j] = "pinned" => FortyHex(PatternMatch(out[j]).ref)

\* the line matches the reference pattern and its ref is a full SHA
LineIsPinned(l) == PatternMatch(l).ok /\ FortyHex(PatternMatch(l).ref)

\* the line matches the reference pattern and its identity begins with '.'
LineIsLocal(l) == PatternMatch(l).ok /\ PatternMatch(l).action[1] = "."

\* C6: a line matching the reference pattern whose ref is exactly 40
\* hexadecimal characters (either case) is emitted unchanged, as that one
\* line, and resolve_sha is never called for it.  (out only grows, and it
\* grows on the way to "line" or "crashed": it is compared there.)
C6_PinnedRefIsNoOp ==
    /\ \A k \in invoked : ~LineIsPinned(lines[k])
    /\ pc \in {"line", "crashed"} =>
          \A k \in 1..(pos - 1) : LineIsPinned(lines[k]) => EmittedUnchanged(k)

\* the loop is past a pinned line with upper-case digits in its ref
C6_Witness ==
    /\ pc = "line"
    /\ \E k \in 1..Len(lines) :
          /\ k < pos
          /\ LineIsPinned(lines[k])
          /\ \E h \in 1..Len(lines[k]) : lines[k][h] = "A"

\* C7: a matching line whose identity begins with '.', whatever its ref, is
\* emitted unchanged as one line, resolve_sha is not called for it, and the
\* changed flag is set only where a line was rewritten.
C7_LocalRefUntouched ==
    /\ \A k \in invoked : ~LineIsLocal(lines[k])
    /\ pc \in {"line", "crashed"} =>
          \A k \in 1..(pos - 1) : LineIsLocal(lines[k]) => EmittedUnchanged(k)
    /\ changed => \E j \in 1..Len(outMarks) : outMarks[j] = "pinned"

\* the loop is past a local line whose ref is not a SHA, with changed unset
C7_Witness ==
    /\ pc = "line"
    /\ ~changed
    /\ \E k \in 1..Len(lines) :
          /\ k < pos
          /\ LineIsLocal(lines[k])
          /\ ~FortyHex(PatternMatch(lines[k]).ref)

\* w occurs in s
Contains(s, w) == \E a \in 1..(Len(s) - Len(w) + 1) : SubSeq(s, a, a + Len(w) - 1) = w

\* l with its first '@r' replaced by '@c'
SpliceFirst(l, r, c) ==
    LET at == {a \in 1..(Len(l) - Len(r)) : SubSeq(l, a, a + Len(r)) = <<"@">> \o r}
        a == CHOOSE x \in at : \A y \in at : x <= y
    IN  SubSeq(l, 1, a - 1) \o <<"@">> \o c \o SubSeq(l, a + Len(r) + 1, Len(l))

\* a is a comment line indented like l that quotes identity@ref of l
IsAuditOf(a, l) ==
    LET m == PatternMatch(l)
    IN  /\ Len(a) > Len(m.indent)
        /\ SubSeq(a, 1, Len(m.indent)) = m.indent
        /\ a[Len(m.indent) + 1] = "#"
        /\ Contains(a, m.action \o <<"@">> \o m.ref)
        /\ a[Len(a)] = "\n"

\* C8: for an eligible line whose reference resolves to C, process_file
\* emits exactly two lines: an audit comment with the line's indentation that
\* quotes identity@ref, then the line with its first '@<ref>' replaced by
\* '@C' and every other character as it was.
C8_SurgicalRewrite ==
    [][SomeResult =>
         /\ Len(out') = Len(out) + 2
         /\ SubSeq(out', 1, Len(out)) = out
         /\ IsAuditOf(out'[Len(out) + 1], ln)
         /\ out'[Len(out) + 2] = SpliceFirst(ln, PatternMatch(ln).ref, sha.s)]_vars

\* C9: when resolve_sha returns nothing for an eligible line (the commit, the
\* tag-ref and the release lookup all failed, or it gave up earlier),
\* process_file appends the line unchanged as one line, prints FAILED for it
\* and goes on with the next line; and at the end of the pass changed is
\* true exactly if some line of the file was rewritten.
C9_Exhaustion ==
    /\ [][NoResult =>
            /\ out' = Append(out, ln)
            /\ pos \in DOMAIN failed'
            /\ changed' = changed
            /\ lines' = lines
            /\ pos' = pos + 1
            /\ pc' = "line"]_vars
    /\ [](PassComplete => (changed <=> \E j \in 1..Len(outMarks) : outMarks[j] = "pinned"))

\* a pass is over in which the three lookups failed for one line, which was
\* kept, and another line was rewritten
C9_Witness ==
    /\ PassComplete
    /\ changed
    /\ \E k \in DOMAIN failed :
          /\ failed[k] = <<"commits", "git/ref/tags", "releases/tags">>
          /\ EmittedUnchanged(k)

\* C10: a second run over what a first run wrote changes nothing: its output
\* equals its input, changed stays false, and resolve_sha is not called for
\* any line the first run rewrote or inserted.
C10_SecondPassIsNoOp ==
    (/\ run > 1
     /\ pc \in {"line", "commit", "tagref", "tagobj", "release", "reltag", "ret"}
     /\ marks[path] # <<>>)
    => /\ \A k \in invoked : marks[path][k] = "kept"
       /\ (PassComplete => out = lines /\ ~changed)

\* the lines of a file as they are on disk: a line ends after each "\n", and
\* the "\r" before it is part of the line
DiskLines(text) == SplitLines(text)

\* C11: every line of the input that does not match the reference pattern is
\* in the persisted output exactly as it was in the input, line ending
\* included.  (While the manifest is being overwritten it is incomplete;
\* that moment is left out here.)
C11_PassthroughVerbatim ==
    pc # "yml_write" =>
        \A p \in DOMAIN yml :
            \A k \in 1..Len(DiskLines(orig[p])) :
                ~PatternMatch(DiskLines(orig[p])[k]).ok
                    => Contains(yml[p], DiskLines(orig[p])[k])

\* C12: the backup is complete before the manifest is opened for writing, so
\* in every state, and so wherever the run is interrupted, the content the
\* manifest had before the rewrite is in the manifest or in its backup.
C12_BackupBeforeOverwrite ==
    \A p \in DOMAIN yml :
        \/ yml[p] = orig[p]
        \/ bak[p].exists /\ bak[p].data = orig[p]

\* out holds a rewritten line
SomePinned == \E j \in 1..Len(outMarks) : outMarks[j] = "pinned"

\* C13: a manifest or a backup is written only by a pass that rewrote a
\* line; a pass in which no reference resolved (every line passthrough,
\* pinned, local or unresolved) ends with changed false, and process_file
\* then returns it without touching a file.
C13_WriteOnlyWhenChanged ==
    /\ [][(yml' # yml \/ bak' # bak) => (changed /\ SomePinned /\ pos > Len(lines))]_vars
    /\ [][(PassComplete /\ ~changed) =>
            /\ yml' = yml /\ bak' = bak
            /\ any_changed' = any_changed
            /\ pc' = "loop" /\ fi' = fi + 1]_vars
    /\ [](PassComplete /\ invoked \subseteq DOMAIN failed => ~changed)

\* process_file has returned False for a file with an unresolved reference,
\* and the directory is as it was
C13_Witness ==
    /\ pc = "loop"
    /\ fi > 1
    /\ ~changed
    /\ DOMAIN failed # {}
    /\ yml = orig
    /\ \A p \in DOMAIN bak : ~bak[p].exists

\* C14: a file error on one workflow ends the work on that workflow alone:
\* main does not stop at it while a discovered workflow is still waiting.
C14_IOFailureIsolated ==
    raised = "OSError" => fi >= Len(files)

\* C15: the manifest on disk changes only after the pass over all its lines,
\* and it changes from the complete old content to the complete rewritten
\* content in one step: no state shows it truncated or half written.
C15_NeverPartiallyPersisted ==
    [][yml' # yml =>
         /\ pos > Len(lines)
         /\ \A p \in DOMAIN yml : yml'[p] # yml[p] => (p = path /\ yml'[p] = WriteLines(out))]_vars

\* the tag-object lookup failed: a status other than 200 (a transport error
\* has none), a body that does not parse, or one that names no identifier
TagObjectFailed(c, b) == c # HTTP_OK \/ ~HasObjectId(b)

\* C16: the tag object is looked up for the identifier T the tag-ref lookup
\* returned; when that lookup fails, resolve_sha returns T itself, and a call
\* that has asked for the tag object never asks for the release.
C16_AnnotatedTagFallback ==
    /\ [](pc = "tagobj" => code = HTTP_OK /\ HasObjectId(body) /\ obj_sha = ObjectId(body))
    /\ [][(pc = "tagobj" /\ TagObjectFailed(code2', body2')) =>
            /\ pc' = "ret"
            /\ sha' = obj_sha
            /\ sha'.s # <<>>
            /\ calls' = Append(calls, Call("git/tags", obj_sha.s))]_vars
    /\ [](\A k \in 1..Len(calls) :
             calls[k].ep = "git/tags" => \A h \in 1..Len(calls) : calls[h].ep # "releases/tags")

\* T came from the tag ref of an annotated tag, the lookup of the tag object
\* ended in a transport error, and T was returned after three requests
C16_Witness ==
    /\ pc = "ret"
    /\ Eps = <<"commits", "git/ref/tags", "git/tags">>
    /\ HasObjectOfType(body, TypeTag)
    /\ code2 = NoCode
    /\ sha = JStr(ShaT)

\* GITHUB_TOKEN is absent (None) or empty
TokenAbsentOrEmpty == token.t = "null" \/ (token.t = "str" /\ token.s = <<>>)

\* C17: without a token every run ends at the check of lines 13-16 with
\* exit status 1: glob has listed nothing, no file has been read, no request
\* has been made, and the directory is as it was.
C17_MissingTokenIsPreflightFatal ==
    /\ [](TokenAbsentOrEmpty =>
             /\ pc \in {"import", "exit1"}
             /\ files = <<>> /\ lines = <<>> /\ out = <<>>
             /\ calls = <<>> /\ invoked = {}
             /\ yml = orig
             /\ \A p \in DOMAIN bak : ~bak[p].exists)
    /\ [][(pc = "import" /\ TokenAbsentOrEmpty) => pc' = "exit1"]_vars

\* the script has exited with status 1 on an empty token, in a directory
\* that has a workflow with an eligible reference
C17_Witness ==
    /\ pc = "exit1"
    /\ token = JStr(<<>>)
    /\ \E p \in DOMAIN yml : \E k \in 1..Len(ReadLines(yml[p])) :
          Classify(ReadLines(yml[p])[k]) = "eligible"

\* where a run stands while resolve_sha is at work
InResolver == pc \in {"commit", "tagref", "tagobj", "release", "reltag"}

\* whatever a lookup answers, resolve_sha goes on to its next lookup or
\* returns None or a string
ResolverStepsReturn ==
    [][InResolver =>
         /\ pc' \in {"tagref", "tagobj", "release", "reltag", "ret"}
         /\ (pc' = "ret" => sha'.t \in {"null", "str"})]_vars

\* C18: no answer of the API makes resolve_sha raise: each lookup leads to
\* the next one or to a return of an identifier or of nothing, and after the
\* return the pass of process_file goes on with the line that follows.
C18_ResolverNeverRaises ==
    /\ ResolverStepsReturn
    /\ [][pc = "ret" => (pc' = "line" /\ pos' = pos + 1 /\ lines' = lines)]_vars

\* the response document b carries a non-empty identifier of its own
HasSha(b) ==
    /\ b.t = "dict"
    /\ "sha" \in DOMAIN b.f
    /\ b.f["sha"].t = "str"
    /\ b.f["sha"].s # <<>>

\* the orders in which one call of resolve_sha may have asked its endpoints
CallOrders ==
    {<<>>,
     <<"commits">>,
     <<"commits", "git/ref/tags">>,
     <<"commits", "git/ref/tags", "git/tags">>,
     <<"commits", "git/ref/tags", "releases/tags">>,
     <<"commits", "git/ref/tags", "releases/tags", "git/ref/tags">>}

\* C19: the requests of one resolve_sha call are made one after another, in
\* the order commit, tag ref, tag object or else release and its tag ref;
\* the tag ref is asked only after the commit lookup gave no identifier, the
\* release only after the tag ref gave none either; a commit lookup that
\* gives an identifier is the only request; and after the return there is
\* no further request of that call.
C19_CallOrder ==
    /\ [](Eps \in CallOrders)
    /\ [][(calls' # calls /\ calls' # <<>>) =>
            /\ InResolver
            /\ Len(calls') = Len(calls) + 1
            /\ SubSeq(calls', 1, Len(calls)) = calls]_vars
    /\ [](pc = "tagref" => ~(code = HTTP_OK /\ HasSha(body)))
    /\ [](pc = "release" => ~(code = HTTP_OK /\ HasObjectId(body)))
    /\ [][(pc = "commit" /\ code' = HTTP_OK /\ HasSha(body')) =>
            /\ pc' = "ret"
            /\ sha' = body'.f["sha"]
            /\ Eps' = <<"commits">>]_vars
    /\ [][pc = "ret" => calls' \in {calls, <<>>}]_vars

\* a call that went through all three steps and returned an identifier
\* after its fourth request
C19_Witness ==
    /\ pc = "ret"
    /\ Eps = <<"commits", "git/ref/tags", "releases/tags", "git/ref/tags">>
    /\ sha.t = "str"
    /\ sha.s # <<>>

\* C20: over any number of runs a backup is written only by a pass that
\* rewrote a line, and what that pass leaves in it is the content its
\* manifest had when the pass began, in place of whatever an earlier run had
\* left there; a pass that changes nothing leaves manifest and backup alone.
C20_BackupAcrossRuns ==
    /\ [][bak' # bak => (changed /\ SomePinned /\ pc' \in {"bak_write", "yml_open"})]_vars
    /\ [][(PassComplete /\ changed) => bak'[path] = [exists |-> TRUE, data |-> <<>>]]_vars
    /\ [][pc = "bak_write" => bak'[path] = [exists |-> TRUE, data |-> orig[path]]]_vars
    /\ [][(PassComplete /\ ~changed) => (yml' = yml /\ bak' = bak)]_vars

====
